---- MODULE Spec2Model ----
(***************************************************************************)
(* The two fixture generators of the repository,                           *)
(*   src/test-files/create-test-pdf.py          create_test_pdf()          *)
(*   src/test-files/create-company-handbook.py  create_company_handbook()  *)
(* as one state machine.  A behaviour is a sequence of at most MaxRuns     *)
(* invocations of one of the two scripts on the same file system.          *)
(*                                                                         *)
(* A Python str is a sequence of Unicode code points and is modelled as    *)
(* exactly that: every literal below is the tuple of the code points of    *)
(* the source literal (the comment before it shows the literal, non-ASCII  *)
(* characters backslash-escaped).                                          *)
(*                                                                         *)
(* The rendering library is the environment of the scripts.  The model     *)
(* keeps the part of it that the scripts' control flow and output depend   *)
(* on: the canvas' current page (_code), its finished pages and page       *)
(* number, the style sheet's set of names (byName), and the creation time  *)
(* that the library stamps into every document it writes.                  *)
(***************************************************************************)
EXTENDS Integers, Sequences, FiniteSets, TLC

VARIABLES
    script,     \* which script the behaviour runs
    run,        \* number of the current invocation, 1..MaxRuns
    clock,      \* the system's time, read by the library when it writes a file
    pc,         \* position of the interpreter in the script
    i,          \* create_test_pdf: index of the next list element of the running
                \* for loop; create_company_handbook: index of the next statement
    y,          \* create_test_pdf: local y
    filename,   \* local filename, << >> before its assignment
    c,          \* create_test_pdf: the canvas
    doc,        \* create_company_handbook: the document template
    styles,     \* create_company_handbook: names in the style sheet
    content,    \* create_company_handbook: the list of flowables
    fs,         \* the file system: path -> file
    stdout,     \* what the current invocation printed
    exc,        \* the exception that ended the current invocation, or "none"
    written     \* history: every file write so far, in order

vars == << script, run, clock, pc, i, y, filename, c, doc, styles, content,
           fs, stdout, exc, written >>

\* Number of invocations of the script in one behaviour.
MaxRuns == 2

\* Largest time, in clock ticks, between two invocations.
MaxDelay == 2

\* line 10: "test-document.pdf"
pdf_filename ==
    << 116, 101, 115, 116, 45, 100, 111, 99, 117, 109, 101, 110, 116, 46, 112,
       100, 102 >>

\* line 13: "sample_company_handbook.pdf"
handbook_filename ==
    << 115, 97, 109, 112, 108, 101, 95, 99, 111, 109, 112, 97, 110, 121, 95,
       104, 97, 110, 100, 98, 111, 111, 107, 46, 112, 100, 102 >>

\* line 76: "Created "
CreatedPrefix ==
    << 67, 114, 101, 97, 116, 101, 100, 32 >>

\* line 76: " successfully"
SuccessSuffix ==
    << 32, 115, 117, 99, 99, 101, 115, 115, 102, 117, 108, 108, 121 >>

\* Variant of the first heading that ends with the time of the run.
Page1Heading_dated ==
    << 81, 65, 32, 84, 101, 115, 116, 32, 80, 68, 70, 32, 68, 111, 99, 117,
       109, 101, 110, 116, 32, 48 + clock >>

\* line 16: "QA Test PDF Document"
Page1Heading ==
    << 81, 65, 32, 84, 101, 115, 116, 32, 80, 68, 70, 32, 68, 111, 99, 117,
       109, 101, 110, 116 >>

\* line 50: "Page 2: Additional Test Content"
Page2Heading ==
    << 80, 97, 103, 101, 32, 50, 58, 32, 65, 100, 100, 105, 116, 105, 111, 110,
       97, 108, 32, 84, 101, 115, 116, 32, 67, 111, 110, 116, 101, 110, 116 >>

test_content ==
    \* line 22: "This is a comprehensive test PDF for validating PDF extraction accuracy."
    << << 84, 104, 105, 115, 32, 105, 115, 32, 97, 32, 99, 111, 109, 112, 114,
          101, 104, 101, 110, 115, 105, 118, 101, 32, 116, 101, 115, 116, 32, 80,
          68, 70, 32, 102, 111, 114, 32, 118, 97, 108, 105, 100, 97, 116, 105,
          110, 103, 32, 80, 68, 70, 32, 101, 120, 116, 114, 97, 99, 116, 105, 111,
          110, 32, 97, 99, 99, 117, 114, 97, 99, 121, 46 >>,
    \* line 23: ""
       << >>,
    \* line 24: "Key Test Phrases:"
       << 75, 101, 121, 32, 84, 101, 115, 116, 32, 80, 104, 114, 97, 115, 101,
          115, 58 >>,
    \* line 25: "\u2022 PDF_UNIQUE_ID_24680 - This phrase should be extracted exactly"
       << 8226, 32, 80, 68, 70, 95, 85, 78, 73, 81, 85, 69, 95, 73, 68, 95, 50,
          52, 54, 56, 48, 32, 45, 32, 84, 104, 105, 115, 32, 112, 104, 114, 97,
          115, 101, 32, 115, 104, 111, 117, 108, 100, 32, 98, 101, 32, 101, 120,
          116, 114, 97, 99, 116, 101, 100, 32, 101, 120, 97, 99, 116, 108, 121 >>,
    \* line 26: "\u2022 Numbers: 42, 3.14159, -17"
       << 8226, 32, 78, 117, 109, 98, 101, 114, 115, 58, 32, 52, 50, 44, 32, 51,
          46, 49, 52, 49, 53, 57, 44, 32, 45, 49, 55 >>,
    \* line 27: "\u2022 Special characters: @#$%^&*()"
       << 8226, 32, 83, 112, 101, 99, 105, 97, 108, 32, 99, 104, 97, 114, 97, 99,
          116, 101, 114, 115, 58, 32, 64, 35, 36, 37, 94, 38, 42, 40, 41 >>,
    \* line 28: "\u2022 Unicode: caf\xe9, na\xefve, r\xe9sum\xe9"
       << 8226, 32, 85, 110, 105, 99, 111, 100, 101, 58, 32, 99, 97, 102, 233, 44,
          32, 110, 97, 239, 118, 101, 44, 32, 114, 233, 115, 117, 109, 233 >>,
    \* line 29: ""
       << >>,
    \* line 30: "Content Sections:"
       << 67, 111, 110, 116, 101, 110, 116, 32, 83, 101, 99, 116, 105, 111, 110,
          115, 58 >>,
    \* line 31: "1. Introduction: This document tests PDF processing"
       << 49, 46, 32, 73, 110, 116, 114, 111, 100, 117, 99, 116, 105, 111, 110,
          58, 32, 84, 104, 105, 115, 32, 100, 111, 99, 117, 109, 101, 110, 116,
          32, 116, 101, 115, 116, 115, 32, 80, 68, 70, 32, 112, 114, 111, 99, 101,
          115, 115, 105, 110, 103 >>,
    \* line 32: "2. Data validation: Row 5, Column 2 contains value PDF_TEST_VALUE_135"
       << 50, 46, 32, 68, 97, 116, 97, 32, 118, 97, 108, 105, 100, 97, 116, 105,
          111, 110, 58, 32, 82, 111, 119, 32, 53, 44, 32, 67, 111, 108, 117, 109,
          110, 32, 50, 32, 99, 111, 110, 116, 97, 105, 110, 115, 32, 118, 97, 108,
          117, 101, 32, 80, 68, 70, 95, 84, 69, 83, 84, 95, 86, 65, 76, 85, 69,
          95, 49, 51, 53 >>,
    \* line 33: "3. Code snippet: function testPDFFunction() { return 'pdf_success'; }"
       << 51, 46, 32, 67, 111, 100, 101, 32, 115, 110, 105, 112, 112, 101, 116,
          58, 32, 102, 117, 110, 99, 116, 105, 111, 110, 32, 116, 101, 115, 116,
          80, 68, 70, 70, 117, 110, 99, 116, 105, 111, 110, 40, 41, 32, 123, 32,
          114, 101, 116, 117, 114, 110, 32, 39, 112, 100, 102, 95, 115, 117, 99,
          99, 101, 115, 115, 39, 59, 32, 125 >>,
    \* line 34: ""
       << >>,
    \* line 35: "Expected chunk count: approximately 2-3 chunks"
       << 69, 120, 112, 101, 99, 116, 101, 100, 32, 99, 104, 117, 110, 107, 32,
          99, 111, 117, 110, 116, 58, 32, 97, 112, 112, 114, 111, 120, 105, 109,
          97, 116, 101, 108, 121, 32, 50, 45, 51, 32, 99, 104, 117, 110, 107, 115 >>,
    \* line 36: "Expected extraction: 100% accuracy for PDF text extraction"
       << 69, 120, 112, 101, 99, 116, 101, 100, 32, 101, 120, 116, 114, 97, 99,
          116, 105, 111, 110, 58, 32, 49, 48, 48, 37, 32, 97, 99, 99, 117, 114,
          97, 99, 121, 32, 102, 111, 114, 32, 80, 68, 70, 32, 116, 101, 120, 116,
          32, 101, 120, 116, 114, 97, 99, 116, 105, 111, 110 >> >>

page2_content ==
    \* line 56: "This is page 2 of the test PDF document."
    << << 84, 104, 105, 115, 32, 105, 115, 32, 112, 97, 103, 101, 32, 50, 32, 111,
          102, 32, 116, 104, 101, 32, 116, 101, 115, 116, 32, 80, 68, 70, 32, 100,
          111, 99, 117, 109, 101, 110, 116, 46 >>,
    \* line 57: ""
       << >>,
    \* line 58: "Additional test phrases:"
       << 65, 100, 100, 105, 116, 105, 111, 110, 97, 108, 32, 116, 101, 115, 116,
          32, 112, 104, 114, 97, 115, 101, 115, 58 >>,
    \* line 59: "\u2022 PDF_PAGE2_IDENTIFIER_97531"
       << 8226, 32, 80, 68, 70, 95, 80, 65, 71, 69, 50, 95, 73, 68, 69, 78, 84,
          73, 70, 73, 69, 82, 95, 57, 55, 53, 51, 49 >>,
    \* line 60: "\u2022 Multi-page extraction test"
       << 8226, 32, 77, 117, 108, 116, 105, 45, 112, 97, 103, 101, 32, 101, 120,
          116, 114, 97, 99, 116, 105, 111, 110, 32, 116, 101, 115, 116 >>,
    \* line 61: "\u2022 Table-like data:"
       << 8226, 32, 84, 97, 98, 108, 101, 45, 108, 105, 107, 101, 32, 100, 97,
          116, 97, 58 >>,
    \* line 62: ""
       << >>,
    \* line 63: "Name          | Age | Department"
       << 78, 97, 109, 101, 32, 32, 32, 32, 32, 32, 32, 32, 32, 32, 124, 32, 65,
          103, 101, 32, 124, 32, 68, 101, 112, 97, 114, 116, 109, 101, 110, 116 >>,
    \* line 64: "John Doe      | 28  | Engineering"
       << 74, 111, 104, 110, 32, 68, 111, 101, 32, 32, 32, 32, 32, 32, 124, 32,
          50, 56, 32, 32, 124, 32, 69, 110, 103, 105, 110, 101, 101, 114, 105,
          110, 103 >>,
    \* line 65: "Jane Smith    | 32  | Marketing"
       << 74, 97, 110, 101, 32, 83, 109, 105, 116, 104, 32, 32, 32, 32, 124, 32,
          51, 50, 32, 32, 124, 32, 77, 97, 114, 107, 101, 116, 105, 110, 103 >>,
    \* line 66: "Bob Johnson   | 45  | Sales"
       << 66, 111, 98, 32, 74, 111, 104, 110, 115, 111, 110, 32, 32, 32, 124, 32,
          52, 53, 32, 32, 124, 32, 83, 97, 108, 101, 115 >>,
    \* line 67: ""
       << >>,
    \* line 68: "End of PDF test document."
       << 69, 110, 100, 32, 111, 102, 32, 80, 68, 70, 32, 116, 101, 115, 116, 32,
          100, 111, 99, 117, 109, 101, 110, 116, 46 >> >>

\* line 25: "PDF_UNIQUE_ID_24680"
PDF_UNIQUE_ID_24680 ==
    << 80, 68, 70, 95, 85, 78, 73, 81, 85, 69, 95, 73, 68, 95, 50, 52, 54, 56,
       48 >>

\* line 32: "PDF_TEST_VALUE_135"
PDF_TEST_VALUE_135 ==
    << 80, 68, 70, 95, 84, 69, 83, 84, 95, 86, 65, 76, 85, 69, 95, 49, 51, 53 >>

\* line 59: "PDF_PAGE2_IDENTIFIER_97531"
PDF_PAGE2_IDENTIFIER_97531 ==
    << 80, 68, 70, 95, 80, 65, 71, 69, 50, 95, 73, 68, 69, 78, 84, 73, 70, 73,
       69, 82, 95, 57, 55, 53, 51, 49 >>

HandbookProgram ==
    << [op |-> "import", name |-> "", line |-> 5],
       [op |-> "SimpleDocTemplate", name |-> "", line |-> 14],
       [op |-> "getSampleStyleSheet", name |-> "", line |-> 15],
       [op |-> "styles.add", name |-> "Heading1", line |-> 18],
       [op |-> "styles.add", name |-> "Heading2", line |-> 23],
       [op |-> "styles.add", name |-> "Normal", line |-> 29],
       [op |-> "content", name |-> "", line |-> 36],
       [op |-> "Paragraph", name |-> "Title", line |-> 39],
       [op |-> "Spacer", name |-> "", line |-> 40],
       [op |-> "Paragraph", name |-> "Normal", line |-> 41],
       [op |-> "Spacer", name |-> "", line |-> 42],
       [op |-> "Paragraph", name |-> "Heading1", line |-> 45],
       [op |-> "Paragraph", name |-> "Normal", line |-> 46],
       [op |-> "Paragraph", name |-> "Heading1", line |-> 54],
       [op |-> "Paragraph", name |-> "Normal", line |-> 55],
       [op |-> "Paragraph", name |-> "Heading1", line |-> 62],
       [op |-> "Paragraph", name |-> "Heading2", line |-> 64],
       [op |-> "Paragraph", name |-> "Normal", line |-> 65],
       [op |-> "Paragraph", name |-> "Heading2", line |-> 71],
       [op |-> "Paragraph", name |-> "Normal", line |-> 72],
       [op |-> "Paragraph", name |-> "Heading1", line |-> 83],
       [op |-> "Paragraph", name |-> "Heading2", line |-> 85],
       [op |-> "Paragraph", name |-> "Normal", line |-> 86],
       [op |-> "Paragraph", name |-> "Heading2", line |-> 94],
       [op |-> "Paragraph", name |-> "Normal", line |-> 95],
       [op |-> "Paragraph", name |-> "Heading1", line |-> 101],
       [op |-> "Paragraph", name |-> "Heading2", line |-> 103],
       [op |-> "Paragraph", name |-> "Normal", line |-> 104],
       [op |-> "Paragraph", name |-> "Heading2", line |-> 117],
       [op |-> "Paragraph", name |-> "Normal", line |-> 118],
       [op |-> "Paragraph", name |-> "Heading2", line |-> 129],
       [op |-> "Paragraph", name |-> "Normal", line |-> 130],
       [op |-> "Paragraph", name |-> "Heading2", line |-> 141],
       [op |-> "Paragraph", name |-> "Normal", line |-> 142],
       [op |-> "Paragraph", name |-> "Heading2", line |-> 148],
       [op |-> "Paragraph", name |-> "Normal", line |-> 149],
       [op |-> "Paragraph", name |-> "Heading1", line |-> 158],
       [op |-> "Paragraph", name |-> "Heading2", line |-> 160],
       [op |-> "Paragraph", name |-> "Normal", line |-> 161],
       [op |-> "Paragraph", name |-> "Heading2", line |-> 171],
       [op |-> "Paragraph", name |-> "Normal", line |-> 172],
       [op |-> "Paragraph", name |-> "Heading2", line |-> 178],
       [op |-> "Paragraph", name |-> "Normal", line |-> 179],
       [op |-> "Paragraph", name |-> "Heading1", line |-> 189],
       [op |-> "Paragraph", name |-> "Normal", line |-> 190],
       [op |-> "doc.build", name |-> "", line |-> 197],
       [op |-> "print", name |-> "", line |-> 198] >>

\* reportlab.lib.pagesizes.letter: 8.5 x 11 inch at 72 points per inch.
letter == << 612, 792 >>

width == letter[1]

height == letter[2]

-----------------------------------------------------------------------------
(* The canvas (reportlab.pdfgen.canvas.Canvas), as far as the script sees it *)

NoCanvas == [filename |-> << >>, code |-> << >>, pages |-> << >>, pageNumber |-> 0]

\* Canvas(filename, pagesize=letter): nothing is written before save().
Canvas(fname) == [filename |-> fname, code |-> << >>, pages |-> << >>, pageNumber |-> 1]

\* c.setFont(psfontname, size): a font operator on the current page.
setFont(cv, psfontname, size) ==
    [cv EXCEPT !.code = Append(@, [op |-> "Tf", font |-> psfontname, size |-> size,
                                   x |-> 0, y |-> 0, text |-> << >>])]

\* Variant of drawString that cuts a string after 20 characters.
drawString_truncating(cv, x, yy, text) ==
    [cv EXCEPT !.code = Append(@, [op |-> "Tj", font |-> "", size |-> 0,
                                   x |-> x, y |-> yy,
                                   text |-> IF Len(text) > 20 THEN SubSeq(text, 1, 20)
                                           ELSE text])]

\* c.drawString(x, y, text): the text, as given, at (x, y) on the current page.
drawString(cv, x, yy, text) ==
    [cv EXCEPT !.code = Append(@, [op |-> "Tj", font |-> "", size |-> 0,
                                   x |-> x, y |-> yy, text |-> text])]

\* Variant of showPage that does not start the new page empty.
showPage_keeping_code(cv) ==
    [cv EXCEPT !.pages = Append(@, cv.code), !.pageNumber = @ + 1]

\* c.showPage(): the current page is finished and a new, empty one begins.
showPage(cv) ==
    [cv EXCEPT !.pages = Append(@, cv.code), !.code = << >>, !.pageNumber = @ + 1]

\* c.save(): finishes the current page if anything was put on it.
save(cv) == IF Len(cv.code) > 0 THEN showPage(cv) ELSE cv

\* The text draws of one page, in the order they were made.
TextOps(page) == SelectSeq(page, LAMBDA o : o.op = "Tj")

-----------------------------------------------------------------------------
(* Files *)

Paths == { pdf_filename, handbook_filename }

NoFile == [exists |-> FALSE, pages |-> << >>, flowables |-> << >>, CreationDate |-> 0]

\* What save() writes: the finished pages, and the time of writing, which the
\* library puts into the document information and the trailer's ID (the
\* canvas is not asked for an invariant document, line 11).
PDFFile(pages, now) ==
    [exists |-> TRUE, pages |-> pages, flowables |-> << >>, CreationDate |-> now]

\* What doc.build(content) writes: the flowables laid out by the library, whose
\* pagination is not modelled, and the time of writing.
BuiltFile(flowables, now) ==
    [exists |-> TRUE, pages |-> << >>, flowables |-> flowables, CreationDate |-> now]

\* A file as it is when the library's time stamp is left out of account.
Undated(f) == [f EXCEPT !.CreationDate = 0]

-----------------------------------------------------------------------------
(* Both scripts *)

\* The literals joined by line 76, resp. line 198.

\* Variant of the message that names the other script's file.
SuccessMessage_of_other_script(fname) ==
    CreatedPrefix \o (IF fname = pdf_filename THEN handbook_filename ELSE pdf_filename)
        \o SuccessSuffix

\* f"Created {filename} successfully"
SuccessMessage(fname) == CreatedPrefix \o fname \o SuccessSuffix

\* Variant in which an exception is caught and the script goes on.
OnException_swallowed(p) == p

\* Neither script has a try statement: an exception raised at position p ends
\* the invocation.
OnException(p) == "failed"

Terminated == pc \in { "done", "failed" }

-----------------------------------------------------------------------------
(* create_test_pdf *)

\* Variant of the page-break test with a threshold of 400.
NeedsNewPage_400(yy) == yy < 400

\* line 42: the page-break test of the first loop
NeedsNewPage(yy) == yy < 100

\* line 41
Loop1NextY(yy) == yy - 20

\* Variant of the second loop's line step: 50 instead of 20.
Loop2NextY_50(yy) == yy - 50

\* line 73
Loop2NextY(yy) == yy - 20

\* Variant of a loop that does not advance.
NextIndex_stuck(k) == k

\* A for loop takes the next element of its list at each iteration.
NextIndex(k) == k + 1

TP(p) == script = "create_test_pdf" /\ pc = p

hbVars == << doc, styles, content >>

envVars == << script, run, clock >>

\* lines 5-6: the imports
TP_Import ==
    /\ TP("L5")
    /\ pc' = "L10"
    /\ UNCHANGED << envVars, i, y, filename, c, hbVars, fs, stdout, exc, written >>

\* lines 10-12
TP_Canvas ==
    /\ TP("L10")
    /\ filename' = pdf_filename
    /\ c' = Canvas(filename')
    /\ pc' = "L15"
    /\ UNCHANGED << envVars, i, y, hbVars, fs, stdout, exc, written >>

\* line 15
TP_SetFontTitle ==
    /\ TP("L15")
    /\ c' = setFont(c, "Helvetica-Bold", 16)
    /\ pc' = "L16"
    /\ UNCHANGED << envVars, i, y, filename, hbVars, fs, stdout, exc, written >>

\* line 16
TP_DrawTitle ==
    /\ TP("L16")
    /\ c' = drawString(c, 100, height - 100, Page1Heading)
    /\ pc' = "L18"
    /\ UNCHANGED << envVars, i, y, filename, hbVars, fs, stdout, exc, written >>

\* lines 18-19
TP_SetFontBody ==
    /\ TP("L18")
    /\ c' = setFont(c, "Helvetica", 12)
    /\ y' = height - 150
    /\ i' = 1
    /\ pc' = "L39"
    /\ UNCHANGED << envVars, filename, hbVars, fs, stdout, exc, written >>

\* lines 39-45: one iteration of the first loop
TP_Loop1 ==
    /\ TP("L39")
    /\ i <= Len(test_content)
    /\ LET drawn == drawString(c, 100, y, test_content[i])
           y1 == Loop1NextY(y)
       IN  IF NeedsNewPage(y1)
           THEN /\ c' = setFont(showPage(drawn), "Helvetica", 12)
                /\ y' = height - 100
           ELSE /\ c' = drawn
                /\ y' = y1
    /\ i' = NextIndex(i)
    /\ pc' = IF i' > Len(test_content) THEN "L48" ELSE "L39"
    /\ UNCHANGED << envVars, filename, hbVars, fs, stdout, exc, written >>

\* line 48
TP_ShowPage ==
    /\ TP("L48")
    /\ c' = showPage(c)
    /\ pc' = "L49"
    /\ UNCHANGED << envVars, i, y, filename, hbVars, fs, stdout, exc, written >>

\* line 49
TP_SetFontPage2 ==
    /\ TP("L49")
    /\ c' = setFont(c, "Helvetica-Bold", 14)
    /\ pc' = "L50"
    /\ UNCHANGED << envVars, i, y, filename, hbVars, fs, stdout, exc, written >>

\* line 50
TP_DrawPage2Heading ==
    /\ TP("L50")
    /\ c' = drawString(c, 100, height - 100, Page2Heading)
    /\ pc' = "L52"
    /\ UNCHANGED << envVars, i, y, filename, hbVars, fs, stdout, exc, written >>

\* lines 52-53
TP_SetFontBody2 ==
    /\ TP("L52")
    /\ c' = setFont(c, "Helvetica", 12)
    /\ y' = height - 150
    /\ i' = 1
    /\ pc' = "L71"
    /\ UNCHANGED << envVars, filename, hbVars, fs, stdout, exc, written >>

\* lines 71-73: one iteration of the second loop
TP_Loop2 ==
    /\ TP("L71")
    /\ i <= Len(page2_content)
    /\ c' = drawString(c, 100, y, page2_content[i])
    /\ y' = Loop2NextY(y)
    /\ i' = NextIndex(i)
    /\ pc' = IF i' > Len(page2_content) THEN "L75" ELSE "L71"
    /\ UNCHANGED << envVars, filename, hbVars, fs, stdout, exc, written >>

\* line 75
TP_Save ==
    /\ TP("L75")
    /\ c' = save(c)
    /\ LET f == PDFFile(c'.pages, clock)
       IN  /\ fs' = [fs EXCEPT ![c.filename] = f]
           /\ written' = Append(written, [run |-> run, path |-> c.filename, file |-> f])
    /\ pc' = "L76"
    /\ UNCHANGED << envVars, i, y, filename, hbVars, stdout, exc >>

\* line 76
TP_Print ==
    /\ TP("L76")
    /\ stdout' = Append(stdout, SuccessMessage(filename))
    /\ pc' = "done"
    /\ UNCHANGED << envVars, i, y, filename, c, hbVars, fs, exc, written >>

-----------------------------------------------------------------------------
(* create_company_handbook *)

\* The names getSampleStyleSheet() defines.
SampleStyleSheet ==
    { "Normal", "BodyText", "Italic", "Heading1", "Title", "Heading2", "Heading3",
      "Heading4", "Heading5", "Heading6", "Bullet", "Definition", "Code",
      "UnorderedList", "OrderedList" }

\* styles[name] raises KeyError for a name the sheet does not define.
LookupRaises(sheet, name) == name \notin sheet

\* styles.add(style) raises KeyError for a name the sheet already defines.
AddRaises(sheet, name) == name \in sheet

HB == script = "create_company_handbook"

\* Whether statement s raises in the current state.
StatementRaises(s) ==
    CASE s.op = "styles.add" ->
             \* parent=styles[name] is evaluated first, then the style is added
             LookupRaises(styles, s.name) \/ AddRaises(styles, s.name)
      [] s.op = "Paragraph" -> LookupRaises(styles, s.name)
      [] OTHER -> FALSE

\* The statement at HandbookProgram[i].
HandbookStep ==
    /\ HB
    /\ pc = "running"
    /\ i <= Len(HandbookProgram)
    /\ LET s == HandbookProgram[i]
       IN  IF StatementRaises(s)
           THEN /\ exc' = "KeyError"
                /\ pc' = OnException(pc)
                /\ UNCHANGED << i, filename, doc, styles, content, fs, stdout, written >>
           ELSE /\ i' = i + 1
                /\ pc' = IF i' > Len(HandbookProgram) THEN "done" ELSE "running"
                /\ filename' = IF s.op = "SimpleDocTemplate" THEN handbook_filename
                               ELSE filename
                /\ doc' = IF s.op = "SimpleDocTemplate"
                          THEN [filename |-> handbook_filename]
                          ELSE doc
                /\ styles' = CASE s.op = "getSampleStyleSheet" -> SampleStyleSheet
                               [] s.op = "styles.add" -> styles \cup { s.name }
                               [] OTHER -> styles
                /\ content' = CASE s.op = "content" -> << >>
                                [] s.op \in { "Paragraph", "Spacer" } ->
                                       Append(content, [kind |-> s.op, style |-> s.name,
                                                        line |-> s.line])
                                [] OTHER -> content
                /\ IF s.op = "doc.build"
                   THEN LET f == BuiltFile(content, clock)
                        IN  /\ fs' = [fs EXCEPT ![doc.filename] = f]
                            /\ written' = Append(written, [run |-> run,
                                                           path |-> doc.filename,
                                                           file |-> f])
                   ELSE UNCHANGED << fs, written >>
                /\ stdout' = IF s.op = "print"
                             THEN Append(stdout, SuccessMessage(filename))
                             ELSE stdout
                /\ exc' = exc
    /\ UNCHANGED << envVars, y, c >>

-----------------------------------------------------------------------------
(* The environment *)

\* The exception a failing library call raises at the current position: a
\* missing dependency at the imports, an unwritable path where the file is
\* written, any other error elsewhere.
Fault ==
    IF HB
    THEN CASE HandbookProgram[i].op = "import" -> "ImportError"
           [] HandbookProgram[i].op = "doc.build" -> "OSError"
           [] OTHER -> "Exception"
    ELSE CASE pc = "L5" -> "ImportError"
           [] pc = "L75" -> "OSError"
           [] OTHER -> "Exception"

EnvironmentFaults == { "ImportError", "OSError", "Exception" }

\* The statement at the current position fails for a reason outside the script.
Raise ==
    /\ ~Terminated
    /\ exc' = Fault
    /\ pc' = OnException(pc)
    /\ UNCHANGED << envVars, i, y, filename, c, hbVars, fs, stdout, written >>

\* The script is invoked again, later, on the same file system.
Rerun ==
    /\ Terminated
    /\ run < MaxRuns
    /\ run' = run + 1
    /\ \E dt \in 1..MaxDelay : clock' = clock + dt
    /\ pc' = IF HB THEN "running" ELSE "L5"
    /\ i' = 1
    /\ y' = 0
    /\ filename' = << >>
    /\ c' = NoCanvas
    /\ doc' = [filename |-> << >>]
    /\ styles' = {}
    /\ content' = << >>
    /\ stdout' = << >>
    /\ exc' = "none"
    /\ UNCHANGED << script, fs, written >>

-----------------------------------------------------------------------------

Init ==
    /\ script \in { "create_test_pdf", "create_company_handbook" }
    /\ run = 1
    /\ clock = 0
    /\ pc = IF HB THEN "running" ELSE "L5"
    /\ i = 1
    /\ y = 0
    /\ filename = << >>
    /\ c = NoCanvas
    /\ doc = [filename |-> << >>]
    /\ styles = {}
    /\ content = << >>
    /\ fs = [p \in Paths |-> NoFile]
    /\ stdout = << >>
    /\ exc = "none"
    /\ written = << >>

\* The interpreter executes the next statement of the script.
Execute ==
    \/ TP_Import
    \/ TP_Canvas
    \/ TP_SetFontTitle
    \/ TP_DrawTitle
    \/ TP_SetFontBody
    \/ TP_Loop1
    \/ TP_ShowPage
    \/ TP_SetFontPage2
    \/ TP_DrawPage2Heading
    \/ TP_SetFontBody2
    \/ TP_Loop2
    \/ TP_Save
    \/ TP_Print
    \/ HandbookStep

Next == Execute \/ Raise \/ Rerun

Spec == Init /\ [][Next]_vars

\* The interpreter is a single synchronous thread: while the script has a next
\* statement, it is executed.
FairSpec == Spec /\ WF_vars(Execute)

-----------------------------------------------------------------------------
(* Properties *)

RECURSIVE Concat(_)
Concat(seqs) == IF seqs = << >> THEN << >> ELSE Head(seqs) \o Concat(Tail(seqs))

\* Every operator put on the canvas so far, finished pages first.
AllOps(cv) == Concat(cv.pages) \o cv.code

\* The strings of a sequence of operators' text draws.
Texts(ops) == [k \in 1..Len(TextOps(ops)) |-> TextOps(ops)[k].text]

Range(s) == { s[k] : k \in 1..Len(s) }

\* t occurs in s.
Contains(s, t) == \E k \in 0..(Len(s) - Len(t)) : SubSeq(s, k + 1, k + Len(t)) = t

IsPrefix(s, t) == Len(s) <= Len(t) /\ SubSeq(t, 1, Len(s)) = s

Markers == { PDF_UNIQUE_ID_24680, PDF_TEST_VALUE_135, PDF_PAGE2_IDENTIFIER_97531 }

SourceLines == Range(test_content) \cup Range(page2_content)

Page1Texts == << Page1Heading >> \o test_content

Page2Texts == << Page2Heading >> \o page2_content

\* The document handle's path.
Handle == IF HB THEN doc.filename ELSE c.filename

\* The current invocation has written its file.
Finalized == \E k \in 1..Len(written) : written[k].run = run

\* The flowables the handbook script appends.
HandbookFlowables ==
    SelectSeq(HandbookProgram, LAMBDA s : s.op \in { "Paragraph", "Spacer" })

\* C1: a completed run of create_test_pdf makes a document of exactly two pages:
\* no page is finished during the first loop, exactly one page is finished (by
\* line 48) when save is reached, and save finishes the second.
C1_TwoPages ==
    script = "create_test_pdf" =>
        /\ pc \in { "L39", "L48" } => c.pageNumber = 1 /\ c.pages = << >>
        /\ pc \in { "L49", "L50", "L52", "L71", "L75" } =>
               c.pageNumber = 2 /\ Len(c.pages) = 1
        /\ pc \in { "L76", "done" } =>
               /\ Len(c.pages) = 2
               /\ fs[pdf_filename].exists
               /\ Len(fs[pdf_filename].pages) = 2

C1_Witness ==
    /\ TP("done")
    /\ c.pageNumber = 3
    /\ Len(fs[pdf_filename].pages) = 2

\* C2: when create_test_pdf reaches save, and from then on, each of the three
\* marker tokens occurs in a string drawn on the canvas, and that string is a
\* literal of the source lists, unmodified.
C2_MarkersDrawn ==
    (script = "create_test_pdf" /\ pc \in { "L75", "L76", "done" }) =>
        \A m \in Markers :
            \E t \in Range(Texts(AllOps(c))) : Contains(t, m) /\ t \in SourceLines

C2_Witness ==
    /\ TP("L75")
    /\ \A m \in Markers : \E t \in Range(Texts(AllOps(c))) : Contains(t, m)

\* C3: a run of create_company_handbook that the environment does not fail
\* raises nothing (in particular each styles.add succeeds), and when it has
\* ended, sample_company_handbook.pdf exists and holds the appended flowables.
C3_HandbookBuilds ==
    HB =>
        /\ exc \in { "none" } \cup EnvironmentFaults
        /\ pc = "done" =>
               /\ fs[handbook_filename].exists
               /\ fs[handbook_filename].flowables # << >>

C5_StepOrder ==
    /\ Len(stdout) <= 1
    /\ stdout # << >> =>
           /\ Finalized
           /\ stdout[1] = CreatedPrefix \o Handle \o SuccessSuffix
    /\ Finalized =>
           /\ written[Len(written)].path = Handle
           /\ IF HB
              THEN Len(content) = Len(HandbookFlowables)
              ELSE Texts(AllOps(c)) = Page1Texts \o Page2Texts
    /\ (AllOps(c) # << >> \/ content # << >>) => Handle # << >>

C5_Witness ==
    /\ pc = "done"
    /\ Len(stdout) = 1
    /\ Finalized

\* C6: an exception ends the invocation: it is in the failed state, has printed
\* nothing, and nothing of it changes afterwards.
C6_FailurePropagates ==
    /\ [](exc # "none" => pc = "failed" /\ stdout = << >>)
    /\ [][(exc # "none" /\ run' = run) =>
              UNCHANGED << pc, i, y, filename, c, doc, styles, content, fs, stdout,
                           written >>]_vars

C6_Witness ==
    /\ exc # "none"
    /\ pc = "failed"
    /\ AllOps(c) # << >>

\* C7: every invocation ends, completed or failed; while it has not ended the
\* interpreter has a statement to execute; each loop of create_test_pdf draws
\* one line per element of its list.
C7_Terminates ==
    /\ (~Terminated) ~> Terminated
    /\ [](~Terminated => ENABLED Execute)
    /\ [](script = "create_test_pdf" =>
              /\ pc = "L39" => Len(TextOps(AllOps(c))) = 1 + (i - 1)
              /\ pc = "L48" => Len(TextOps(AllOps(c))) = 1 + Len(test_content)
              /\ pc = "L71" => Len(TextOps(AllOps(c))) = 2 + Len(test_content) + (i - 1)
              /\ pc = "L75" =>
                     Len(TextOps(AllOps(c))) = 2 + Len(test_content) + Len(page2_content))

C7_Witness ==
    /\ TP("L75")
    /\ i = Len(page2_content) + 1

\* C9: every string create_test_pdf draws is at x = 100 and at a y with
\* 100 <= y <= height - 100.
C9_DrawsWithinPage ==
    \A o \in Range(TextOps(AllOps(c))) :
        /\ o.x = 100
        /\ 100 <= o.y
        /\ o.y <= height - 100

C9_Witness ==
    /\ TP("done")
    /\ Len(TextOps(AllOps(c))) = 30
    /\ \E o \in Range(TextOps(AllOps(c))) : o.y = 402

\* C10: the strings are drawn in the order of the source; after save, page 1
\* holds the first heading and the 15 lines of test_content, page 2 the second
\* heading and the 13 lines of page2_content, there is no other page, and
\* nothing is drawn any more.
C10_PageSplit ==
    /\ [](script = "create_test_pdf" =>
              /\ IsPrefix(Texts(AllOps(c)), Page1Texts \o Page2Texts)
              /\ pc \in { "L76", "done" } =>
                     /\ Len(c.pages) = 2
                     /\ Texts(c.pages[1]) = Page1Texts
                     /\ Texts(c.pages[2]) = Page2Texts
                     /\ c.code = << >>
                     /\ fs[pdf_filename].pages = c.pages)
    /\ [][(pc \in { "L76", "done" } /\ run' = run) => c' = c]_vars

C10_Witness ==
    /\ TP("L76")
    /\ Len(c.pages) = 2
    /\ Len(Texts(c.pages[2])) = 14

====
